---- MODULE Spec2Model ----
(***************************************************************************)
(* LocalSFTPServer: the filesystem adapter (StubSFTPServer), its path jail *)
(* (_realpath) and the server lifecycle (SFTPServer.start / start_sync /   *)
(* _run_server / stop).                                                    *)
(*                                                                         *)
(* Strings are sequences of one-character strings, so that the string      *)
(* operations of the code (startswith, slicing, os.path.normpath/join/     *)
(* abspath/dirname) are computed character by character.                   *)
(***************************************************************************)
EXTENDS Integers, Sequences, FiniteSets, TLC

VARIABLES
    ROOT,           \* StubSFTPServer.ROOT, the class attribute (a string)
    fs,             \* the host filesystem: canonical path -> node
    last,           \* the last adapter call: what it was given, did and returned
    nops,           \* number of adapter calls made so far
    rp_path,        \* SpecPath: the client path handed to _realpath
    rp_result,      \* SpecPath: what _realpath gave back
    root_path,      \* SFTPServer.root_path of the server object
    is_running,     \* SFTPServer.is_running
    thread,         \* SFTPServer.thread (0 is None, else a thread id)
    server_socket,  \* SFTPServer.server_socket (0 is None, else a socket id)
    sockets,        \* every socket object created: id -> state
    loops,          \* every execution of _run_server: id -> its position
    callers,        \* the threads calling start / start_sync / stop
    conns,          \* accepted connections: id -> transport state
    errlog,         \* what logging.error recorded in _run_server
    ncalls,         \* method calls made so far
    key_file,       \* the host's files at the key paths: path -> content
    ctor            \* SFTPServer.__init__: its position and what it found

fsvars   == <<fs, last, nops>>
pathvars == <<rp_path, rp_result>>
lifevars == <<root_path, is_running, thread, server_socket, sockets, loops,
              callers, conns, errlog, ncalls>>
keyvars  == <<key_file, ctor>>
vars     == <<ROOT, fs, last, nops, rp_path, rp_result, root_path, is_running,
              thread, server_socket, sockets, loops, callers, conns, errlog,
              key_file, ctor,
              ncalls>>

(***************************************************************************)
(* Bounds                                                                  *)
(***************************************************************************)
MaxComps == 3       \* components of a client path in SpecPath
MaxOps == 2         \* adapter calls per behaviour in SpecFS

(***************************************************************************)
(* Strings                                                                 *)
(***************************************************************************)
SEP == "/"
DOT == <<".">>
DOTDOT == <<".", ".">>
EMPTY == <<>>

StartsWith(s, p) == Len(s) >= Len(p) /\ SubSeq(s, 1, Len(p)) = p
EndsWith(s, p) == Len(s) >= Len(p) /\ SubSeq(s, Len(s) - Len(p) + 1, Len(s)) = p
Slice(s, i) == SubSeq(s, i + 1, Len(s))     \* s[i:]
Prefix(s, n) == SubSeq(s, 1, IF n < Len(s) THEN n ELSE Len(s))  \* s[:n]

RECURSIVE SplitAcc(_, _, _, _)
SplitAcc(s, i, cur, acc) ==
    IF i > Len(s) THEN Append(acc, cur)
    ELSE IF s[i] = SEP THEN SplitAcc(s, i + 1, <<>>, Append(acc, cur))
    ELSE SplitAcc(s, i + 1, Append(cur, s[i]), acc)

\* str.split('/')
Split(s) == SplitAcc(s, 1, <<>>, <<>>)

RECURSIVE JoinSlash(_)
\* '/'.join(comps)
JoinSlash(comps) ==
    IF comps = <<>> THEN <<>>
    ELSE IF Len(comps) = 1 THEN comps[1]
    ELSE comps[1] \o <<SEP>> \o JoinSlash(Tail(comps))

\* os.path.isabs
IsAbs(s) == StartsWith(s, <<SEP>>)

RECURSIVE NormComps(_, _, _)
\* the loop of posixpath.normpath over the split components
NormComps(comps, new, initial) ==
    IF comps = <<>> THEN new
    ELSE LET c == Head(comps) IN
         IF c = EMPTY \/ c = DOT THEN NormComps(Tail(comps), new, initial)
         ELSE IF c # DOTDOT
                 \/ (initial = 0 /\ new = <<>>)
                 \/ (new # <<>> /\ new[Len(new)] = DOTDOT)
              THEN NormComps(Tail(comps), Append(new, c), initial)
         ELSE IF new # <<>>
              THEN NormComps(Tail(comps), SubSeq(new, 1, Len(new) - 1), initial)
         ELSE NormComps(Tail(comps), new, initial)

\* os.path.normpath (posixpath)
NormPath(path) ==
    IF path = <<>> THEN DOT
    ELSE LET initial == IF ~StartsWith(path, <<SEP>>) THEN 0
                        ELSE IF StartsWith(path, <<SEP, SEP>>)
                                /\ ~StartsWith(path, <<SEP, SEP, SEP>>) THEN 2
                        ELSE 1
             body == JoinSlash(NormComps(Split(path), <<>>, initial))
             out == (IF initial = 2 THEN <<SEP, SEP>>
                     ELSE IF initial = 1 THEN <<SEP>> ELSE <<>>) \o body
         IN IF out = <<>> THEN DOT ELSE out

\* os.path.join(a, b) (posixpath)
PathJoin(a, b) ==
    IF StartsWith(b, <<SEP>>) THEN b
    ELSE IF a = <<>> \/ EndsWith(a, <<SEP>>) THEN a \o b
    ELSE a \o <<SEP>> \o b

\* the process's working directory, os.getcwd()
Cwd == <<SEP, "w">>

\* os.path.abspath
AbsPath(path) == NormPath(IF IsAbs(path) THEN path ELSE PathJoin(Cwd, path))

RECURSIVE LastSep(_, _)
LastSep(s, i) == IF i = 0 THEN 0 ELSE IF s[i] = SEP THEN i ELSE LastSep(s, i - 1)

RECURSIVE RStripSep(_)
RStripSep(s) ==
    IF s # <<>> /\ s[Len(s)] = SEP THEN RStripSep(SubSeq(s, 1, Len(s) - 1)) ELSE s

\* os.path.dirname (posixpath)
DirName(p) ==
    LET i == LastSep(p, Len(p))
        head == SubSeq(p, 1, i)
    IN IF head # <<>> /\ \E k \in 1..Len(head) : head[k] # SEP
       THEN RStripSep(head) ELSE head

(***************************************************************************)
(* Canonical host locations: a sequence of names from the host's "/".      *)
(***************************************************************************)
\* the components of an absolute, normalised path string
Comps(abs) == SelectSeq(Split(abs), LAMBDA c : c # EMPTY)

IsPrefixOf(p, q) == Len(p) <= Len(q) /\ SubSeq(q, 1, Len(p)) = p

\* location loc is the directory rootStr or lies below it
Inside(loc, rootStr) == IsPrefixOf(Comps(AbsPath(rootStr)), loc)

(***************************************************************************)
(* StubSFTPServer._realpath                                                *)
(***************************************************************************)
ValueError == [raised |-> "ValueError", path |-> <<>>]

Realpath(root, path) ==
    LET normalized_path == NormPath(path)
        full_path == PathJoin(root, normalized_path)
        absolute_path == AbsPath(full_path)
    IN IF ~StartsWith(absolute_path, root) THEN ValueError
       ELSE [raised |-> "none", path |-> absolute_path]

(***************************************************************************)
(* SpecPath: _realpath applied to every bounded client path.               *)
(***************************************************************************)
NameR == <<"r">>
NameR2 == <<"r", "2">>
NameD == <<"d">>
RootStr == <<SEP>> \o NameR            \* "/r"

PathTokens == {DOTDOT, DOT, EMPTY, NameR, NameR2, NameD}
TokenSeqs == UNION {[1..k -> PathTokens] : k \in 1..MaxComps}
\* relative and absolute client paths, with '.', '..' and redundant separators
ClientPathInputs ==
    {JoinSlash(cs) : cs \in TokenSeqs} \cup {<<SEP>> \o JoinSlash(cs) : cs \in TokenSeqs}
PathRoots == {RootStr, <<SEP>> \o NameD \o <<SEP>> \o NameR}   \* "/r", "/d/r"

Pending == [raised |-> "pending", path |-> <<>>]

CallRealpath ==
    /\ rp_result = Pending
    /\ rp_result' = Realpath(ROOT, rp_path)
    /\ UNCHANGED <<ROOT, keyvars, rp_path, fsvars, lifevars>>

(***************************************************************************)
(* The host filesystem.  fs maps a canonical location (the sequence of     *)
(* names from "/") to a node.  Walk is the kernel's path resolution: it    *)
(* follows symbolic links component by component, which the lexical        *)
(* os.path.abspath of _realpath does not.                                  *)
(***************************************************************************)
SymLoopMax == 40        \* links followed in one resolution before ELOOP
DefaultMode == 438      \* 0o666
DirMode == 511          \* 0o777, the default of os.mkdir and of links

\* size is st_size: a file is created empty, a link has the length of its
\* target; the size of a directory is the host's and does not change here
DirNode == [kind |-> "dir", target |-> <<>>, mode |-> DirMode, size |-> 0]
FileNode(mode) == [kind |-> "file", target |-> <<>>, mode |-> mode, size |-> 0]
LinkNode(target) ==
    [kind |-> "link", target |-> target, mode |-> DirMode, size |-> Len(target)]

Parent(loc) == IF loc = <<>> THEN <<>> ELSE SubSeq(loc, 1, Len(loc) - 1)
Children(f, loc) ==
    {p \in DOMAIN f : Len(p) = Len(loc) + 1 /\ IsPrefixOf(loc, p)}
Subtree(f, loc) == {p \in DOMAIN f : IsPrefixOf(loc, p)}

WalkErr(e) == [err |-> e, loc |-> <<>>, exists |-> FALSE]

RECURSIVE Walk(_, _, _, _, _)
Walk(f, cur, rest, follow, fuel) ==
    IF rest = <<>> THEN [err |-> "OK", loc |-> cur, exists |-> TRUE]
    ELSE LET c == Head(rest)
             t == Tail(rest)
             more == \E i \in 1..Len(t) : t[i] # EMPTY /\ t[i] # DOT
         IN
         IF c = EMPTY \/ c = DOT THEN Walk(f, cur, t, follow, fuel)
         ELSE IF c = DOTDOT THEN Walk(f, Parent(cur), t, follow, fuel)
         ELSE LET next == Append(cur, c) IN
              IF next \notin DOMAIN f
              THEN IF more THEN WalkErr("ENOENT")
                   ELSE [err |-> "OK", loc |-> next, exists |-> FALSE]
              ELSE IF f[next].kind = "link" /\ (more \/ follow)
              THEN IF fuel = 0 THEN WalkErr("ELOOP")
                   ELSE IF f[next].target = <<>> THEN WalkErr("ENOENT")
                   ELSE Walk(f, IF IsAbs(f[next].target) THEN <<>> ELSE cur,
                             Split(f[next].target) \o t, follow, fuel - 1)
              ELSE IF f[next].kind = "file" /\ t # <<>> THEN WalkErr("ENOTDIR")
              ELSE IF f[next].kind = "link" THEN [err |-> "OK", loc |-> next, exists |-> TRUE]
              ELSE Walk(f, next, t, follow, fuel)

\* resolution of an absolute path string by the host
Lookup(f, path, follow) == Walk(f, <<>>, Split(path), follow, SymLoopMax)

\* what a host call gives: errno ("OK" on success), the filesystem after it,
\* the locations it read or changed, and its value
Sys(e, f, acc, val) == [err |-> e, fs |-> f, acc |-> acc, val |-> val]
SysFail(e, f) == Sys(e, f, {}, <<>>)

StatOf(f, loc, name) ==
    [filename |-> name, kind |-> f[loc].kind, mode |-> f[loc].mode,
     size |-> f[loc].size]

\* os.stat (follow) and os.lstat (~follow)
SysStat(f, path, follow) ==
    LET w == Lookup(f, path, follow) IN
    IF w.err # "OK" THEN SysFail(w.err, f)
    ELSE IF ~w.exists THEN SysFail("ENOENT", f)
    ELSE Sys("OK", f, {w.loc}, StatOf(f, w.loc, <<>>))

\* os.listdir
SysListdir(f, path) ==
    LET w == Lookup(f, path, TRUE) IN
    IF w.err # "OK" THEN SysFail(w.err, f)
    ELSE IF ~w.exists THEN SysFail("ENOENT", f)
    ELSE IF f[w.loc].kind # "dir" THEN SysFail("ENOTDIR", f)
    ELSE Sys("OK", f, {w.loc}, {p[Len(p)] : p \in Children(f, w.loc)})

\* os.open(path, flags, mode) followed by os.fdopen
SysOpen(f, path, flags, mode) ==
    LET w == Lookup(f, path, TRUE) IN
    IF w.err # "OK" THEN SysFail(w.err, f)
    ELSE IF ~w.exists
         THEN IF "O_CREAT" \in flags
              THEN Sys("OK", (w.loc :> FileNode(mode)) @@ f, {w.loc}, w.loc)
              ELSE SysFail("ENOENT", f)
    ELSE IF f[w.loc].kind = "dir" THEN Sys("EISDIR", f, {w.loc}, <<>>)
    ELSE Sys("OK", f, {w.loc}, w.loc)

\* n bytes written from offset 0 through the file object that open() made
\* with os.fdopen(fd, fstr) and stored as the handle's writefile; a file
\* object of mode "rb" refuses to write
SysWrite(f, path, fstr, n) ==
    LET w == Lookup(f, path, TRUE) IN
    IF fstr = "rb" THEN SysFail("EBADF", f)
    ELSE IF w.err # "OK" THEN SysFail(w.err, f)
    ELSE IF ~w.exists THEN SysFail("ENOENT", f)
    ELSE Sys("OK",
             [f EXCEPT ![w.loc].size =
                 IF fstr \in {"ab", "a+b"} THEN @ + n ELSE IF @ < n THEN n ELSE @],
             {w.loc}, n)

Without(f, locs) == [p \in DOMAIN f \ locs |-> f[p]]

\* os.remove
SysRemove(f, path) ==
    LET w == Lookup(f, path, FALSE) IN
    IF w.err # "OK" THEN SysFail(w.err, f)
    ELSE IF ~w.exists THEN SysFail("ENOENT", f)
    ELSE IF f[w.loc].kind = "dir" THEN Sys("EISDIR", f, {w.loc}, <<>>)
    ELSE Sys("OK", Without(f, {w.loc}), {w.loc}, <<>>)

\* os.mkdir
SysMkdir(f, path) ==
    LET w == Lookup(f, path, FALSE) IN
    IF w.err # "OK" THEN SysFail(w.err, f)
    ELSE IF w.exists THEN Sys("EEXIST", f, {w.loc}, <<>>)
    ELSE Sys("OK", (w.loc :> DirNode) @@ f, {w.loc}, <<>>)

\* os.rmdir
SysRmdir(f, path) ==
    LET w == Lookup(f, path, FALSE) IN
    IF w.err # "OK" THEN SysFail(w.err, f)
    ELSE IF ~w.exists THEN SysFail("ENOENT", f)
    ELSE IF f[w.loc].kind # "dir" THEN Sys("ENOTDIR", f, {w.loc}, <<>>)
    ELSE IF Children(f, w.loc) # {} THEN Sys("ENOTEMPTY", f, {w.loc}, <<>>)
    ELSE IF w.loc = <<>> THEN Sys("EBUSY", f, {w.loc}, <<>>)
    ELSE Sys("OK", Without(f, {w.loc}), {w.loc}, <<>>)

\* os.rename
SysRename(f, oldpath, newpath) ==
    LET a == Lookup(f, oldpath, FALSE)
        b == Lookup(f, newpath, FALSE)
    IN
    IF a.err # "OK" THEN SysFail(a.err, f)
    ELSE IF ~a.exists THEN SysFail("ENOENT", f)
    ELSE IF b.err # "OK" THEN SysFail(b.err, f)
    ELSE IF a.loc = b.loc THEN Sys("OK", f, {a.loc}, <<>>)
    ELSE IF f[a.loc].kind = "dir" /\ IsPrefixOf(a.loc, b.loc)
         THEN Sys("EINVAL", f, {a.loc}, <<>>)
    ELSE IF b.exists /\ f[a.loc].kind = "dir" /\ f[b.loc].kind # "dir"
         THEN Sys("ENOTDIR", f, {a.loc, b.loc}, <<>>)
    ELSE IF b.exists /\ f[a.loc].kind # "dir" /\ f[b.loc].kind = "dir"
         THEN Sys("EISDIR", f, {a.loc, b.loc}, <<>>)
    ELSE IF b.exists /\ Children(f, b.loc) # {}
         THEN Sys("ENOTEMPTY", f, {a.loc, b.loc}, <<>>)
    ELSE LET moved == Subtree(f, a.loc)
             rest == Without(f, moved \cup {b.loc})
             to(p) == b.loc \o SubSeq(p, Len(a.loc) + 1, Len(p))
         IN Sys("OK",
                [q \in {to(p) : p \in moved} |->
                    f[a.loc \o SubSeq(q, Len(b.loc) + 1, Len(q))]] @@ rest,
                {a.loc, b.loc}, <<>>)

\* os.symlink(target, path)
SysSymlink(f, target, path) ==
    LET w == Lookup(f, path, FALSE) IN
    IF w.err # "OK" THEN SysFail(w.err, f)
    ELSE IF w.exists THEN Sys("EEXIST", f, {w.loc}, <<>>)
    ELSE IF target = <<>> THEN SysFail("ENOENT", f)
    ELSE Sys("OK", (w.loc :> LinkNode(target)) @@ f, {w.loc}, <<>>)

\* os.readlink
SysReadlink(f, path) ==
    LET w == Lookup(f, path, FALSE) IN
    IF w.err # "OK" THEN SysFail(w.err, f)
    ELSE IF ~w.exists THEN SysFail("ENOENT", f)
    ELSE IF f[w.loc].kind # "link" THEN Sys("EINVAL", f, {w.loc}, <<>>)
    ELSE Sys("OK", f, {w.loc}, f[w.loc].target)

(***************************************************************************)
(* Attributes (paramiko.SFTPAttributes, as far as the adapter uses them).  *)
(* NoneAttr is Python's None.  _flags says which fields the client sent;   *)
(* st_mode is 0 when the client sent none (Python: None).  The server      *)
(* process is unprivileged: os.chown to a foreign owner fails with EPERM.  *)
(***************************************************************************)
NoneAttr == [isnone |-> TRUE, flags |-> {}, st_mode |-> 0, owner |-> "self"]
Attr(flags, mode, owner) ==
    [isnone |-> FALSE, flags |-> flags, st_mode |-> mode, owner |-> owner]
NoMode == 0
ClientMode == 6 * 64    \* 0o600, a mode a client sends

\* paramiko.SFTPServer.set_file_attr: os.chmod, then os.chown
SysSetAttr(f, path, attr) ==
    LET w == Lookup(f, path, TRUE) IN
    IF attr.flags = {} THEN Sys("OK", f, {}, <<>>)
    ELSE IF w.err # "OK" THEN SysFail(w.err, f)
    ELSE IF ~w.exists THEN SysFail("ENOENT", f)
    ELSE LET f1 == IF "PERMISSIONS" \in attr.flags
                   THEN [f EXCEPT ![w.loc].mode = attr.st_mode] ELSE f
         IN IF "UIDGID" \in attr.flags /\ attr.owner # "self"
            THEN Sys("EPERM", f1, {w.loc}, <<>>)
            ELSE Sys("OK", f1, {w.loc}, <<>>)

\* paramiko.SFTPServer.convert_errno
ConvertErrno(e) ==
    IF e = "EACCES" THEN "SFTP_PERMISSION_DENIED"
    ELSE IF e \in {"ENOENT", "ENOTDIR"} THEN "SFTP_NO_SUCH_FILE"
    ELSE "SFTP_FAILURE"

(***************************************************************************)
(* What an adapter method gives its caller: the exception that left it     *)
(* ("none" when it returned), its return value, the filesystem after it,   *)
(* the number of host filesystem calls it made and the locations those     *)
(* calls read or changed.                                                  *)
(***************************************************************************)
Status(code) == [kind |-> "status", status |-> code, val |-> <<>>]
Payload(kind, val) == [kind |-> kind, status |-> "SFTP_OK", val |-> val]
NoRet == [kind |-> "none", status |-> "", val |-> <<>>]

Out(raised, ret, f, calls, acc) ==
    [raised |-> raised, ret |-> ret, fs |-> f, calls |-> calls, acc |-> acc]
Denied(f) == Out("ValueError", NoRet, f, 0, {})
Returned(ret, sys, calls) == Out("none", ret, sys.fs, calls, sys.acc)
Failed(sys, calls) == Returned(Status(ConvertErrno(sys.err)), sys, calls)

ErrorStr == <<"<", "e", "r", "r", "o", "r", ">">>      \* "<error>"

list_folder(root, f, path) ==
    LET rp == Realpath(root, path) IN
    IF rp.raised # "none" THEN Denied(f)
    ELSE LET l == SysListdir(f, rp.path) IN
         IF l.err # "OK" THEN Failed(l, 1)
         ELSE LET st(n) == SysStat(f, PathJoin(rp.path, n), FALSE)
                  bad == {n \in l.val : st(n).err # "OK"}
                  acc == l.acc \cup UNION {st(n).acc : n \in l.val}
                  calls == 1 + Cardinality(l.val)
              IN IF bad # {}
                 THEN Out("none", Status(ConvertErrno(st(CHOOSE n \in bad : TRUE).err)),
                          f, calls, acc)
                 ELSE Out("none",
                          Payload("attrs", {[st(n).val EXCEPT !.filename = n] : n \in l.val}),
                          f, calls, acc)

stat(root, f, path) ==
    LET rp == Realpath(root, path) IN
    IF rp.raised # "none" THEN Denied(f)
    ELSE LET s == SysStat(f, rp.path, TRUE) IN
         IF s.err # "OK" THEN Failed(s, 1)
         ELSE Returned(Payload("attr", s.val), s, 1)

lstat(root, f, path) ==
    LET rp == Realpath(root, path) IN
    IF rp.raised # "none" THEN Denied(f)
    ELSE LET s == SysStat(f, rp.path, FALSE) IN
         IF s.err # "OK" THEN Failed(s, 1)
         ELSE Returned(Payload("attr", s.val), s, 1)

\* a mode string that forgets O_APPEND: what C21 rules out
FstrIgnoresAppend(flags) ==
    IF "O_WRONLY" \in flags THEN "wb"
    ELSE IF "O_RDWR" \in flags THEN "r+b"
    ELSE "rb"

\* the mode string handed to os.fdopen
Fstr(flags) ==
    IF "O_WRONLY" \in flags
    THEN (IF "O_APPEND" \in flags THEN "ab" ELSE "wb")
    ELSE IF "O_RDWR" \in flags
    THEN (IF "O_APPEND" \in flags THEN "a+b" ELSE "r+b")
    ELSE "rb"

open(root, f, path, flags, attr) ==
    LET rp == Realpath(root, path) IN
    IF rp.raised # "none" THEN Denied(f)
    ELSE LET mode == IF attr.isnone THEN NoMode ELSE attr.st_mode
             o == SysOpen(f, rp.path, flags, IF mode # NoMode THEN mode ELSE DefaultMode)
         IN
         IF o.err # "OK" THEN Failed(o, 1)
         ELSE LET apply == "O_CREAT" \in flags /\ ~attr.isnone
                  a == IF apply
                       THEN SysSetAttr(o.fs, rp.path,
                                [attr EXCEPT !.flags = @ \ {"PERMISSIONS"}])
                       ELSE Sys("OK", o.fs, {}, <<>>)
                  calls == IF apply THEN 2 ELSE 1
              IN IF a.err # "OK"
                 THEN Out("OSError", NoRet, a.fs, calls, o.acc \cup a.acc)
                 ELSE Out("none",
                          Payload("handle", [filename |-> rp.path, fstr |-> Fstr(flags),
                                             flags |-> flags]),
                          a.fs, calls, o.acc \cup a.acc)

\* remove() that reports success without the host call: what C18 rules out
removeKeeps(root, f, path) ==
    LET rp == Realpath(root, path) IN
    IF rp.raised # "none" THEN Denied(f)
    ELSE Out("none", Status("SFTP_OK"), f, 0, {})

remove(root, f, path) ==
    LET rp == Realpath(root, path) IN
    IF rp.raised # "none" THEN Denied(f)
    ELSE LET s == SysRemove(f, rp.path) IN
         IF s.err # "OK" THEN Failed(s, 1) ELSE Returned(Status("SFTP_OK"), s, 1)

rename(root, f, oldpath, newpath) ==
    LET ro == Realpath(root, oldpath) IN
    IF ro.raised # "none" THEN Denied(f)
    ELSE LET rn == Realpath(root, newpath) IN
         IF rn.raised # "none" THEN Denied(f)
         ELSE LET s == SysRename(f, ro.path, rn.path) IN
              IF s.err # "OK" THEN Failed(s, 1) ELSE Returned(Status("SFTP_OK"), s, 1)

mkdir(root, f, path, attr) ==
    LET rp == Realpath(root, path) IN
    IF rp.raised # "none" THEN Denied(f)
    ELSE LET m == SysMkdir(f, rp.path) IN
         IF m.err # "OK" THEN Failed(m, 1)
         ELSE IF attr.isnone THEN Returned(Status("SFTP_OK"), m, 1)
         ELSE LET a == SysSetAttr(m.fs, rp.path, attr)
                  acc == m.acc \cup a.acc
              IN IF a.err # "OK"
                 THEN Out("none", Status(ConvertErrno(a.err)), a.fs, 2, acc)
                 ELSE Out("none", Status("SFTP_OK"), a.fs, 2, acc)

\* rmdir() that reports success without the host call: what C14 rules out
rmdirKeeps(root, f, path) ==
    LET rp == Realpath(root, path) IN
    IF rp.raised # "none" THEN Denied(f)
    ELSE Out("none", Status("SFTP_OK"), f, 0, {})

rmdir(root, f, path) ==
    LET rp == Realpath(root, path) IN
    IF rp.raised # "none" THEN Denied(f)
    ELSE LET s == SysRmdir(f, rp.path) IN
         IF s.err # "OK" THEN Failed(s, 1) ELSE Returned(Status("SFTP_OK"), s, 1)

chattr(root, f, path, attr) ==
    LET rp == Realpath(root, path) IN
    IF rp.raised # "none" THEN Denied(f)
    ELSE LET s == SysSetAttr(f, rp.path, attr) IN
         IF s.err # "OK" THEN Failed(s, 1) ELSE Returned(Status("SFTP_OK"), s, 1)

\* the target symlink() writes into the link
SymlinkTarget(root, path, target_path) ==
    IF Len(target_path) > 0 /\ target_path[1] = SEP
    THEN LET t == PathJoin(root, Slice(target_path, 1)) IN
         IF Prefix(t, 2) = <<SEP, SEP>> THEN Slice(t, 1) ELSE t
    ELSE LET abspath == PathJoin(DirName(path), target_path) IN
         IF Prefix(abspath, Len(root)) # root THEN ErrorStr ELSE target_path

symlink(root, f, target_path, path) ==
    LET rp == Realpath(root, path) IN
    IF rp.raised # "none" THEN Denied(f)
    ELSE LET s == SysSymlink(f, SymlinkTarget(root, rp.path, target_path), rp.path) IN
         IF s.err # "OK" THEN Failed(s, 1) ELSE Returned(Status("SFTP_OK"), s, 1)

\* what readlink() makes of the raw link target
ReadlinkResult(root, raw) ==
    IF IsAbs(raw)
    THEN IF Prefix(raw, Len(root)) = root
         THEN LET t == Slice(raw, Len(root)) IN
              IF Len(t) = 0 \/ t[1] # SEP THEN <<SEP>> \o t ELSE t
         ELSE ErrorStr
    ELSE raw

readlink(root, f, path) ==
    LET rp == Realpath(root, path) IN
    IF rp.raised # "none" THEN Denied(f)
    ELSE LET s == SysReadlink(f, rp.path) IN
         IF s.err # "OK" THEN Failed(s, 1)
         ELSE Returned(Payload("string", ReadlinkResult(root, s.val)), s, 1)

(***************************************************************************)
(* SpecFS: a session calling the adapter on a host whose jailed root "/r"  *)
(* has a sibling directory "/r2" and a file "/s" beside it.                *)
(***************************************************************************)
NameF == <<"f">>
NameL == <<"l">>
NameS == <<"s">>
Rel(names) == JoinSlash(names)

ClientPaths ==
    {NameF, NameD, NameL, Rel(<<DOTDOT, NameS>>), Rel(<<DOTDOT, NameR2>>),
     Rel(<<DOTDOT, NameR2, NameF>>)}
LinkTargets ==
    {NameF, Rel(<<DOTDOT, NameS>>), <<SEP>> \o NameF, <<SEP>> \o Rel(<<DOTDOT, NameS>>)}
OpenFlags ==
    {acc \cup opt : acc \in {{}, {"O_WRONLY"}, {"O_RDWR"}},
                    opt \in SUBSET {"O_CREAT", "O_APPEND"}}
AttrMode == Attr({"PERMISSIONS"}, ClientMode, "self")
AttrChown == Attr({"UIDGID"}, NoMode, "other")
SentAttrs == {AttrMode, AttrChown}
\* open() is tried on a file name, a link name, a path into the sibling
\* directory and a path the jail rejects
OpenPaths == {NameF, NameL, Rel(<<DOTDOT, NameS>>), Rel(<<DOTDOT, NameR2, NameF>>)}

InitFs ==
    (<<>> :> DirNode) @@ (<<NameR>> :> DirNode) @@ (<<NameR, NameD>> :> DirNode)
    @@ (<<NameR2>> :> DirNode) @@ (<<NameS>> :> FileNode(DefaultMode))

NoCall ==
    [op |-> "none", path |-> <<>>, path2 |-> <<>>, flags |-> {}, attr |-> NoneAttr,
     raised |-> "none", ret |-> NoRet, calls |-> 0, acc |-> {}, changed |-> FALSE]

Do(op, path, path2, flags, attr, out) ==
    /\ nops < MaxOps
    /\ nops' = nops + 1
    /\ fs' = out.fs
    /\ last' = [op |-> op, path |-> path, path2 |-> path2, flags |-> flags,
                attr |-> attr, raised |-> out.raised, ret |-> out.ret,
                calls |-> out.calls, acc |-> out.acc, changed |-> out.fs # fs]
    /\ UNCHANGED <<ROOT, keyvars, pathvars, lifevars>>

ListFolder == \E p \in ClientPaths :
    Do("list_folder", p, <<>>, {}, NoneAttr, list_folder(ROOT, fs, p))
Stat == \E p \in ClientPaths :
    Do("stat", p, <<>>, {}, NoneAttr, stat(ROOT, fs, p))
Lstat == \E p \in ClientPaths :
    Do("lstat", p, <<>>, {}, NoneAttr, lstat(ROOT, fs, p))
Open == \E p \in OpenPaths, fl \in OpenFlags, a \in SentAttrs \cup {NoneAttr} :
    Do("open", p, <<>>, fl, a, open(ROOT, fs, p, fl, a))
Remove == \E p \in ClientPaths :
    Do("remove", p, <<>>, {}, NoneAttr, remove(ROOT, fs, p))
Rename == \E p \in ClientPaths, q \in ClientPaths :
    Do("rename", p, q, {}, NoneAttr, rename(ROOT, fs, p, q))
Mkdir == \E p \in ClientPaths, a \in SentAttrs \cup {NoneAttr} :
    Do("mkdir", p, <<>>, {}, a, mkdir(ROOT, fs, p, a))
Rmdir == \E p \in ClientPaths :
    Do("rmdir", p, <<>>, {}, NoneAttr, rmdir(ROOT, fs, p))
Chattr == \E p \in ClientPaths, a \in SentAttrs :
    Do("chattr", p, <<>>, {}, a, chattr(ROOT, fs, p, a))
Symlink == \E t \in LinkTargets, p \in ClientPaths :
    Do("symlink", p, t, {}, NoneAttr, symlink(ROOT, fs, t, p))
Readlink == \E p \in ClientPaths :
    Do("readlink", p, <<>>, {}, NoneAttr, readlink(ROOT, fs, p))

(***************************************************************************)
(* The server lifecycle: SFTPServer.start, start_sync, _run_server, stop.  *)
(* The callers are the threads of the embedding program that call the      *)
(* server's methods; a loop is one execution of _run_server, on a thread   *)
(* that start() spawned or on the caller of start_sync().  A step is one   *)
(* read or write of the server object's shared attributes.                 *)
(***************************************************************************)
MaxCalls == 3       \* method calls made on the server object
MaxConns == 2       \* connections the peers make

Callers == {"main", "other"}
Idle == [pc |-> "idle", loop |-> 0]

NewLoop(mode) == [pc |-> "socket", mode |-> mode, sock |-> 0, conn |-> 0]
Finished(l) == loops[l].pc \in {"done", "crashed"}

At(c, pc) == callers[c].pc = pc
Goto(c, pc) == [callers EXCEPT ![c].pc = pc]

\* The methods are called one at a time: a caller enters a method only when
\* no other caller is inside one, except inside the foreground loop of
\* start_sync(), which returns only when the server is stopped.
CanCall(c) ==
    /\ At(c, "idle")
    /\ ncalls < MaxCalls
    /\ \A d \in Callers \ {c} : callers[d].pc \in {"idle", "sync_run"}
Counted(c) == ncalls' = ncalls + 1

\* start() without its test of is_running: what C7 rules out
StartCallUnguarded(c) ==
    /\ CanCall(c)
    /\ Counted(c)
    /\ callers' = Goto(c, "start_set")
    /\ UNCHANGED <<ROOT, keyvars, fsvars, pathvars, root_path, is_running, thread,
                   server_socket, sockets, loops, conns, errlog>>

\* start(), lines 110-112: if self.is_running: log and return
StartCall(c) ==
    /\ CanCall(c)
    /\ Counted(c)
    /\ callers' = Goto(c, IF is_running THEN "start_return" ELSE "start_set")
    /\ UNCHANGED <<ROOT, keyvars, fsvars, pathvars, root_path, is_running, thread,
                   server_socket, sockets, loops, conns, errlog>>

\* the early return of start(), start_sync() and stop(), after logging
\* (lines 111-112, 123-124, 165-166)
Return(c) ==
    /\ callers[c].pc \in {"start_return", "sync_return", "stop_return"}
    /\ callers' = Goto(c, "idle")
    /\ UNCHANGED <<ROOT, keyvars, fsvars, pathvars, root_path, is_running, thread,
                   server_socket, sockets, loops, conns, errlog, ncalls>>

\* start(), line 114: self.is_running = True
StartSet(c) ==
    /\ At(c, "start_set")
    /\ is_running' = TRUE
    /\ callers' = Goto(c, "start_spawn")
    /\ UNCHANGED <<ROOT, keyvars, fsvars, pathvars, root_path, thread, server_socket,
                   sockets, loops, conns, errlog, ncalls>>

\* start(), lines 115-118: the thread is created and started; start()
\* returns after its sleep, which touches nothing
StartSpawn(c) ==
    /\ At(c, "start_spawn")
    /\ loops' = Append(loops, NewLoop("thread"))
    /\ thread' = Len(loops) + 1
    /\ callers' = Goto(c, "idle")
    /\ UNCHANGED <<ROOT, keyvars, fsvars, pathvars, root_path, is_running, server_socket,
                   sockets, conns, errlog, ncalls>>

\* start_sync(), lines 122-124
StartSyncCall(c) ==
    /\ CanCall(c)
    /\ Counted(c)
    /\ callers' = Goto(c, IF is_running THEN "sync_return" ELSE "sync_set")
    /\ UNCHANGED <<ROOT, keyvars, fsvars, pathvars, root_path, is_running, thread,
                   server_socket, sockets, loops, conns, errlog>>

\* start_sync(), lines 126-128: the flag is set and _run_server entered
StartSyncSet(c) ==
    /\ At(c, "sync_set")
    /\ is_running' = TRUE
    /\ loops' = Append(loops, NewLoop("sync"))
    /\ callers' = [callers EXCEPT ![c].pc = "sync_run", ![c].loop = Len(loops) + 1]
    /\ UNCHANGED <<ROOT, keyvars, fsvars, pathvars, root_path, thread, server_socket,
                   sockets, conns, errlog, ncalls>>

\* _run_server returned to start_sync, or its exception left start_sync
StartSyncReturn(c) ==
    /\ At(c, "sync_run")
    /\ Finished(callers[c].loop)
    /\ callers' = Goto(c, "idle")
    /\ UNCHANGED <<ROOT, keyvars, fsvars, pathvars, root_path, is_running, thread,
                   server_socket, sockets, loops, conns, errlog, ncalls>>

\* stop(), lines 164-166: if not self.is_running: log and return
StopCall(c) ==
    /\ CanCall(c)
    /\ Counted(c)
    /\ callers' = Goto(c, IF ~is_running THEN "stop_return" ELSE "stop_set")
    /\ UNCHANGED <<ROOT, keyvars, fsvars, pathvars, root_path, is_running, thread,
                   server_socket, sockets, loops, conns, errlog>>

\* stop(), line 168: self.is_running = False
StopSet(c) ==
    /\ At(c, "stop_set")
    /\ is_running' = FALSE
    /\ callers' = Goto(c, "stop_close")
    /\ UNCHANGED <<ROOT, keyvars, fsvars, pathvars, root_path, thread, server_socket,
                   sockets, loops, conns, errlog, ncalls>>

\* stop(), lines 169-171: if self.server_socket: self.server_socket.close()
\* (close() of a socket object that is closed already does nothing)
StopClose(c) ==
    /\ At(c, "stop_close")
    /\ sockets' = IF server_socket # 0
                  THEN [sockets EXCEPT ![server_socket].open = FALSE]
                  ELSE sockets
    /\ callers' = Goto(c, "stop_join")
    /\ UNCHANGED <<ROOT, keyvars, fsvars, pathvars, root_path, is_running, thread,
                   server_socket, loops, conns, errlog, ncalls>>

\* stop(), lines 172-173: if self.thread: self.thread.join(); then return
StopJoin(c) ==
    /\ At(c, "stop_join")
    /\ thread # 0 => Finished(thread)
    /\ callers' = Goto(c, "idle")
    /\ UNCHANGED <<ROOT, keyvars, fsvars, pathvars, root_path, is_running, thread,
                   server_socket, sockets, loops, conns, errlog, ncalls>>

LoopAt(l, pc) == l \in DOMAIN loops /\ loops[l].pc = pc
LoopGoto(l, pc) == [loops EXCEPT ![l].pc = pc]
LoopIds == 1..MaxCalls

\* _run_server, line 134: self.server_socket = socket.socket(...)
LoopSocket(l) ==
    /\ LoopAt(l, "socket")
    /\ sockets' = Append(sockets, [open |-> TRUE, bound |-> FALSE])
    /\ server_socket' = Len(sockets) + 1
    /\ loops' = LoopGoto(l, "bind")
    /\ UNCHANGED <<ROOT, keyvars, fsvars, pathvars, root_path, is_running, thread,
                   callers, conns, errlog, ncalls>>

\* the address is held by another listening socket of this process
AddressInUse(s) ==
    \E o \in DOMAIN sockets : o # s /\ sockets[o].open /\ sockets[o].bound

\* _run_server, lines 135-137: setsockopt, bind, listen on self.server_socket.
\* They raise OSError when the socket was closed meanwhile, when the address
\* is in use, or when the host refuses (busy); that exception is raised
\* outside the try block and ends _run_server.
LoopBind(l) ==
    /\ LoopAt(l, "bind")
    /\ \E busy \in BOOLEAN :
        LET s == server_socket IN
        IF ~sockets[s].open \/ AddressInUse(s) \/ busy
        THEN /\ loops' = LoopGoto(l, "crashed")
             /\ UNCHANGED sockets
        ELSE /\ sockets' = [sockets EXCEPT ![s].bound = TRUE]
             /\ loops' = LoopGoto(l, "check")
    /\ UNCHANGED <<ROOT, keyvars, fsvars, pathvars, root_path, is_running, thread,
                   server_socket, callers, conns, errlog, ncalls>>

\* _run_server, line 139: while self.is_running
LoopCheck(l) ==
    /\ LoopAt(l, "check")
    /\ loops' = LoopGoto(l, IF is_running THEN "accept" ELSE "done")
    /\ UNCHANGED <<ROOT, keyvars, fsvars, pathvars, root_path, is_running, thread,
                   server_socket, sockets, callers, conns, errlog, ncalls>>

\* _run_server, lines 159-160: except Exception as e: logging.error(...);
\* then the loop condition is tested again.  The log is kept as the set of
\* the kinds of failure recorded: "accept" (accept() called on a closed
\* socket), "shutdown" (the socket closed under a blocked accept()) and
\* "connection" (a failure while handling an accepted connection).
Logged(cause) == errlog \cup {cause}

\* _run_server, line 141: self.server_socket.accept() is called; on a socket
\* that is closed already it raises at once
LoopAccept(l) ==
    /\ LoopAt(l, "accept")
    /\ IF sockets[server_socket].open
       THEN /\ loops' = [loops EXCEPT ![l].pc = "blocked", ![l].sock = server_socket]
            /\ UNCHANGED errlog
       ELSE /\ loops' = LoopGoto(l, "check")
            /\ errlog' = Logged("accept")
    /\ UNCHANGED <<ROOT, keyvars, fsvars, pathvars, root_path, is_running, thread,
                   server_socket, sockets, callers, conns, ncalls>>

\* accept() returns a connection (lines 141-142).  What close() does to an
\* accept() that another thread is blocked in depends on the host: the call
\* is aborted with an error (AcceptShutdown), or it stays blocked on the
\* listening socket and still returns the next connection.
AcceptConnection(l) ==
    /\ LoopAt(l, "blocked")
    /\ Len(conns) < MaxConns
    /\ conns' = Append(conns, [active |-> FALSE])
    /\ loops' = [loops EXCEPT ![l].pc = "handle", ![l].conn = Len(conns) + 1]
    /\ UNCHANGED <<ROOT, keyvars, fsvars, pathvars, root_path, is_running, thread,
                   server_socket, sockets, callers, errlog, ncalls>>

\* stop() closed the socket the loop is blocked on and the host aborts the
\* call: accept() raises, and the except clause handles it like every other
\* exception
AcceptShutdown(l) ==
    /\ LoopAt(l, "blocked")
    /\ ~sockets[loops[l].sock].open
    /\ loops' = LoopGoto(l, "check")
    /\ errlog' = Logged("shutdown")
    /\ UNCHANGED <<ROOT, keyvars, fsvars, pathvars, root_path, is_running, thread,
                   server_socket, sockets, callers, conns, ncalls>>

\* lines 144-152 without the try block around them: what C11 rules out
LoopHandleUncaught(l) ==
    /\ LoopAt(l, "handle")
    /\ \E ok \in BOOLEAN :
        IF ok
        THEN /\ conns' = [conns EXCEPT ![loops[l].conn].active = TRUE]
             /\ loops' = LoopGoto(l, "start_server")
        ELSE /\ loops' = LoopGoto(l, "crashed")
             /\ UNCHANGED conns
    /\ UNCHANGED <<ROOT, keyvars, fsvars, pathvars, root_path, is_running, thread,
                   server_socket, sockets, callers, errlog, ncalls>>

\* _run_server, lines 144-152: the host key is loaded (it may fail: the key
\* file is not validated before), the transport is built and started
LoopHandle(l) ==
    /\ LoopAt(l, "handle")
    /\ \E ok \in BOOLEAN :
        IF ok
        THEN /\ conns' = [conns EXCEPT ![loops[l].conn].active = TRUE]
             /\ loops' = LoopGoto(l, "start_server")
             /\ UNCHANGED errlog
        ELSE /\ loops' = LoopGoto(l, "check")
             /\ errlog' = Logged("connection")
             /\ UNCHANGED conns
    /\ UNCHANGED <<ROOT, keyvars, fsvars, pathvars, root_path, is_running, thread,
                   server_socket, sockets, callers, ncalls>>

\* _run_server, lines 153-155: transport.start_server and transport.accept.
\* start_server raises when the negotiation fails (the transport is then
\* inactive) or for another reason that leaves the started transport active.
LoopStartServer(l) ==
    /\ LoopAt(l, "start_server")
    /\ \E outcome \in {"ok", "negotiation failed", "raised"} :
        /\ loops' = LoopGoto(l, IF outcome = "ok" THEN "monitor" ELSE "check")
        /\ errlog' = IF outcome = "ok" THEN errlog ELSE Logged("connection")
        /\ conns' = IF outcome = "negotiation failed"
                    THEN [conns EXCEPT ![loops[l].conn].active = FALSE]
                    ELSE conns
    /\ UNCHANGED <<ROOT, keyvars, fsvars, pathvars, root_path, is_running, thread,
                   server_socket, sockets, callers, ncalls>>

\* _run_server, lines 157-158: while transport.is_active(): time.sleep(1)
LoopMonitor(l) ==
    /\ LoopAt(l, "monitor")
    /\ ~conns[loops[l].conn].active
    /\ loops' = LoopGoto(l, "check")
    /\ UNCHANGED <<ROOT, keyvars, fsvars, pathvars, root_path, is_running, thread,
                   server_socket, sockets, callers, conns, errlog, ncalls>>

\* the peer disconnects: the session's transport becomes inactive
SessionEnds(k) ==
    /\ k \in DOMAIN conns
    /\ conns[k].active
    /\ conns' = [conns EXCEPT ![k].active = FALSE]
    /\ UNCHANGED <<ROOT, keyvars, fsvars, pathvars, root_path, is_running, thread,
                   server_socket, sockets, loops, callers, errlog, ncalls>>

\* another SFTPServer object is constructed in the process; its __init__
\* (lines 98-99) assigns the class attribute StubSFTPServer.ROOT
OtherRoot == <<SEP>> \o NameR2
ConstructOther ==
    /\ ROOT # OtherRoot
    /\ ROOT' = OtherRoot
    /\ UNCHANGED <<fsvars, pathvars, lifevars, keyvars>>

(***************************************************************************)
(* Construction: SFTPServer.__init__ and generate_rsa_key_pair.  The       *)
(* content of a key file is who wrote it: nobody (no file), the host (a    *)
(* file that was there) or the n-th key that a constructor generated.      *)
(***************************************************************************)
MaxBuilt == 2       \* SFTPServer objects constructed

KeyPaths == {"key.pem", "test_rsa.key"}
Absent == [by |-> "none", n |-> 0]
HostKey == [by |-> "host", n |-> 0]
Generated(n) == [by |-> "server", n |-> n]

\* os.path.exists(self.key_filename)
KeyExists(k) == key_file[k] # Absent

\* __init__ without the test of line 82: what C20 rules out
ConstructCheckAlways(k) ==
    /\ ctor.pc = "idle"
    /\ ctor.built < MaxBuilt
    /\ ctor' = [ctor EXCEPT !.pc = "generate", !.k = k, !.before = key_file[k]]
    /\ UNCHANGED <<ROOT, key_file, fsvars, pathvars, lifevars>>

\* __init__, lines 81-82: self.key_filename = key_filename;
\* if not os.path.exists(self.key_filename)
ConstructCheck(k) ==
    /\ ctor.pc = "idle"
    /\ ctor.built < MaxBuilt
    /\ ctor' = [ctor EXCEPT !.pc = IF KeyExists(k) THEN "assign" ELSE "generate",
                            !.k = k, !.before = key_file[k]]
    /\ UNCHANGED <<ROOT, key_file, fsvars, pathvars, lifevars>>

\* line 83 and generate_rsa_key_pair, lines 175-188: a new key is generated
\* and written to key_filename, opened with mode "wb"
ConstructGenerate ==
    /\ ctor.pc = "generate"
    /\ key_file' = [key_file EXCEPT ![ctor.k] = Generated(ctor.made + 1)]
    /\ ctor' = [ctor EXCEPT !.pc = "assign", !.made = @ + 1]
    /\ UNCHANGED <<ROOT, fsvars, pathvars, lifevars>>

\* lines 85-99: the attributes are set (is_running False, no socket, no
\* thread) and StubSFTPServer.ROOT is assigned; __init__ is about to return
ConstructAssign ==
    /\ ctor.pc = "assign"
    /\ ROOT' = root_path
    /\ ctor' = [ctor EXCEPT !.pc = "built", !.built = @ + 1]
    /\ UNCHANGED <<key_file, fsvars, pathvars, lifevars>>

\* __init__ returns the object
ConstructReturn ==
    /\ ctor.pc = "built"
    /\ ctor' = [ctor EXCEPT !.pc = "idle"]
    /\ UNCHANGED <<ROOT, key_file, fsvars, pathvars, lifevars>>

\* between constructions the embedding program puts a key file of its own
\* at a key path, or removes the file there (as the tests do)
HostPutsKey(k) ==
    /\ ctor.pc = "idle"
    /\ ~KeyExists(k)
    /\ key_file' = [key_file EXCEPT ![k] = HostKey]
    /\ UNCHANGED <<ROOT, ctor, fsvars, pathvars, lifevars>>
HostRemovesKey(k) ==
    /\ ctor.pc = "idle"
    /\ KeyExists(k)
    /\ key_file' = [key_file EXCEPT ![k] = Absent]
    /\ UNCHANGED <<ROOT, ctor, fsvars, pathvars, lifevars>>

(***************************************************************************)
(* Short sessions: a client works on the entries of the root and of its    *)
(* directory d, a few requests in a row.                                   *)
(***************************************************************************)
MaxSeq == 2

\* client paths of entries directly in the root and in its directory d
EntryPaths == {NameF, NameD, NameL, Rel(<<NameD, NameF>>), Rel(<<NameD, NameL>>)}

Serve(op, path, path2, flags, attr, out) ==
    /\ nops < MaxSeq
    /\ nops' = nops + 1
    /\ fs' = out.fs
    /\ last' = [op |-> op, path |-> path, path2 |-> path2, flags |-> flags,
                attr |-> attr, raised |-> out.raised, ret |-> out.ret,
                calls |-> out.calls, acc |-> out.acc, changed |-> out.fs # fs]
    /\ UNCHANGED <<ROOT, keyvars, pathvars, lifevars>>

SeqList == \E p \in {EMPTY, NameD} :
    Serve("list_folder", p, <<>>, {}, NoneAttr, list_folder(ROOT, fs, p))
SeqMkdir == \E p \in EntryPaths, a \in {NoneAttr, AttrMode} :
    Serve("mkdir", p, <<>>, {}, a, mkdir(ROOT, fs, p, a))
SeqRmdir == \E p \in EntryPaths :
    Serve("rmdir", p, <<>>, {}, NoneAttr, rmdir(ROOT, fs, p))

\* files are opened for reading, for writing and for appending, with and
\* without a mode sent, and written through the handle that open() returned
SeqFlags ==
    {{"O_CREAT"}, {"O_CREAT", "O_WRONLY"}, {"O_CREAT", "O_RDWR"},
     {"O_CREAT", "O_WRONLY", "O_APPEND"}, {"O_WRONLY"}}
FilePaths == {NameF, Rel(<<NameD, NameF>>)}
WriteSizes == {0, 5}

SeqOpen == \E p \in FilePaths, fl \in SeqFlags, a \in {NoneAttr, AttrMode} :
    Serve("open", p, <<>>, fl, a, open(ROOT, fs, p, fl, a))
SeqWrite == \E n \in WriteSizes :
    /\ last.op = "open" /\ last.raised = "none" /\ last.ret.kind = "handle"
    /\ LET h == last.ret.val
           w == SysWrite(fs, h.filename, h.fstr, n)
       IN /\ fs' = w.fs
          /\ last' = [last EXCEPT !.op = "write",
                         !.ret = IF w.err = "OK" THEN Payload("written", <<n>>)
                                 ELSE Status(ConvertErrno(w.err)),
                         !.calls = 1, !.acc = w.acc, !.changed = w.fs # fs]
    /\ UNCHANGED <<ROOT, keyvars, nops, pathvars, lifevars>>
SeqRemove == \E p \in EntryPaths :
    Serve("remove", p, <<>>, {}, NoneAttr, remove(ROOT, fs, p))

\* rename between the entries, and out to the sibling directory
RenamePaths == EntryPaths \cup {Rel(<<DOTDOT, NameR2, NameF>>)}
SeqRename == \E p \in RenamePaths, q \in RenamePaths :
    Serve("rename", p, q, {}, NoneAttr, rename(ROOT, fs, p, q))

\* link targets a client sends: relative ones, and absolute ones that name
\* an entry of the root ("/f"), with "..", or with two leading separators
SeqTargets ==
    {NameF, Rel(<<DOTDOT, NameS>>),
     <<SEP>> \o NameF, <<SEP>> \o Rel(<<NameD, NameF>>),
     <<SEP>> \o Rel(<<DOTDOT, NameS>>),
     <<SEP, SEP>> \o NameS, <<SEP, SEP>> \o Rel(<<NameR2, NameF>>)}
LinkPaths == {NameL, Rel(<<NameD, NameL>>)}

SeqSymlink == \E t \in SeqTargets, p \in LinkPaths :
    Serve("symlink", p, t, {}, NoneAttr, symlink(ROOT, fs, t, p))
SeqReadlink == \E p \in LinkPaths :
    Serve("readlink", p, <<>>, {}, NoneAttr, readlink(ROOT, fs, p))

(***************************************************************************)
(* Initial states and specifications                                       *)
(***************************************************************************)
InitLife ==
    /\ root_path = RootStr
    /\ is_running = FALSE
    /\ thread = 0
    /\ server_socket = 0
    /\ sockets = <<>>
    /\ loops = <<>>
    /\ callers = [c \in Callers |-> Idle]
    /\ conns = <<>>
    /\ errlog = {}
    /\ ncalls = 0

\* the server object exists: its constructor found no key file at the
\* default path and generated one
InitKeyBuilt ==
    /\ key_file = [k \in KeyPaths |-> IF k = "key.pem" THEN Generated(1) ELSE Absent]
    /\ ctor = [pc |-> "idle", k |-> "key.pem", before |-> Absent, made |-> 1,
               built |-> 1]

Init ==
    /\ ROOT = RootStr
    /\ InitKeyBuilt
    /\ fs = InitFs
    /\ last = NoCall
    /\ nops = 0
    /\ rp_path = <<>>
    /\ rp_result = Pending
    /\ InitLife

InitPath ==
    /\ ROOT \in PathRoots
    /\ InitKeyBuilt
    /\ fs = InitFs
    /\ last = NoCall
    /\ nops = 0
    /\ rp_path \in ClientPathInputs
    /\ rp_result = Pending
    /\ InitLife

NextPath == CallRealpath
SpecPath == InitPath /\ [][NextPath]_vars

NextFS ==
    \/ ListFolder \/ Stat \/ Lstat \/ Open \/ Remove \/ Rename
    \/ Mkdir \/ Rmdir \/ Chattr \/ Symlink \/ Readlink
SpecFS == Init /\ [][NextFS]_vars

\* sessions that open files, with the requests that give open() its cases:
\* symlink() makes the links it follows, remove() the names it creates anew
NextOpen == Open \/ Remove \/ Symlink
SpecOpen == Init /\ [][NextOpen]_vars

\* before the first SFTPServer is constructed: StubSFTPServer.ROOT is the
\* working directory, and the key paths hold whatever the host has there
InitKey ==
    /\ ROOT = Cwd
    /\ key_file \in [KeyPaths -> {Absent, HostKey}]
    /\ ctor = [pc |-> "idle", k |-> "key.pem", before |-> Absent, made |-> 0,
               built |-> 0]
    /\ fs = InitFs
    /\ last = NoCall
    /\ nops = 0
    /\ rp_path = <<>>
    /\ rp_result = Pending
    /\ InitLife

NextKey ==
    \/ \E k \in KeyPaths : ConstructCheck(k) \/ HostPutsKey(k) \/ HostRemovesKey(k)
    \/ ConstructGenerate \/ ConstructAssign \/ ConstructReturn
SpecKey == InitKey /\ [][NextKey]_vars

NextSeq ==
    \/ SeqList \/ SeqMkdir \/ SeqRmdir
    \/ SeqSymlink \/ SeqReadlink
    \/ SeqOpen \/ SeqWrite \/ SeqRemove \/ SeqRename
SpecSeq == Init /\ [][NextSeq]_vars

NextLife ==
    \/ \E c \in Callers :
          \/ StartCall(c) \/ StartSet(c) \/ StartSpawn(c) \/ Return(c)
          \/ StartSyncCall(c) \/ StartSyncSet(c) \/ StartSyncReturn(c)
          \/ StopCall(c) \/ StopSet(c) \/ StopClose(c) \/ StopJoin(c)
    \/ \E l \in LoopIds :
          \/ LoopSocket(l) \/ LoopBind(l) \/ LoopCheck(l) \/ LoopAccept(l)
          \/ AcceptConnection(l) \/ AcceptShutdown(l) \/ LoopHandle(l)
          \/ LoopStartServer(l) \/ LoopMonitor(l)
    \/ \E k \in 1..MaxConns : SessionEnds(k)
    \/ ConstructOther
SpecLife == Init /\ [][NextLife]_vars

\* A thread that can take its next step of _run_server is scheduled
\* eventually.  (accept() returning and a session ending depend on the
\* peers and on the host, and are not forced.)
LoopStep(l) ==
    \/ LoopSocket(l) \/ LoopBind(l) \/ LoopCheck(l) \/ LoopAccept(l)
    \/ LoopHandle(l) \/ LoopStartServer(l) \/ LoopMonitor(l)
FairLife == \A l \in LoopIds : WF_vars(LoopStep(l))

\* The server as one thread of the embedding program uses it (the fixture
\* of the tests, the command line), with the scheduling of its loops.
NextServe ==
    \/ StartCall("main") \/ StartSet("main") \/ StartSpawn("main")
    \/ Return("main")
    \/ StartSyncCall("main") \/ StartSyncSet("main") \/ StartSyncReturn("main")
    \/ StopCall("main") \/ StopSet("main") \/ StopClose("main")
    \/ StopJoin("main")
    \/ \E l \in LoopIds :
          \/ LoopSocket(l) \/ LoopBind(l) \/ LoopCheck(l) \/ LoopAccept(l)
          \/ AcceptConnection(l) \/ AcceptShutdown(l) \/ LoopHandle(l)
          \/ LoopStartServer(l) \/ LoopMonitor(l)
    \/ \E k \in 1..MaxConns : SessionEnds(k)
SpecServe == Init /\ [][NextServe]_vars /\ FairLife

\* The scheduling under which stop() is expected to return: the thread
\* inside stop() and the threads of _run_server take the steps they can
\* take, and every session that is active ends.  (A peer is not forced to
\* connect, and a host need not abort an accept() whose socket was closed.)
StopStep(c) == StopSet(c) \/ StopClose(c) \/ StopJoin(c)
FairStop ==
    /\ WF_vars(StopStep("main"))
    /\ \A k \in 1..MaxConns : WF_vars(SessionEnds(k))
SpecStop == Init /\ [][NextServe]_vars /\ FairLife /\ FairStop

(***************************************************************************)
(* Claims about the path jail and the adapter                              *)
(***************************************************************************)
\* where a client path lies when it is resolved against the root lexically
\* (normalise, join to the root, make absolute)
LexLoc(root, path) == Comps(AbsPath(PathJoin(root, NormPath(path))))
LexInside(root, path) == Inside(LexLoc(root, path), root)

\* the last call was an adapter operation and one of the paths it resolves
\* (its path, or rename's second endpoint) lies outside the root
ArgOutside ==
    /\ last.op # "none"
    /\ \/ ~LexInside(ROOT, last.path)
       \/ last.op = "rename" /\ ~LexInside(ROOT, last.path2)
ArgsInside ==
    /\ last.op # "none"
    /\ LexInside(ROOT, last.path)
    /\ last.op = "rename" => LexInside(ROOT, last.path2)

\* C1: no adapter operation reads or modifies a host entry outside the
\* jailed root; stated for the calls whose client paths name a location
\* inside the root, which is where a link made by symlink() is used as the
\* path of stat() or open().  (Paths that name a location outside the root
\* are the subject of C2 and C3.)
C1_NoAccessOutsideRoot ==
    ArgsInside => \A loc \in last.acc : Inside(loc, ROOT)

\* C2: _realpath either raises the access-denied error or returns an
\* absolute path that is the root or a descendant of the root directory.
C2_RealpathInsideRoot ==
    rp_result.raised = "none" =>
        IsAbs(rp_result.path) /\ Inside(Comps(rp_result.path), ROOT)

\* C3: an operation one of whose path arguments resolves outside the root
\* makes no host filesystem call and leaves the host filesystem unchanged.
C3_EscapingCallTouchesNothing ==
    ArgOutside => last.calls = 0 /\ ~last.changed

\* C4: an operation called with an escaping path returns to its caller; no
\* exception leaves the adapter.
C4_RejectionIsReturned ==
    ArgOutside => last.raised = "none"

\* C5: no host filesystem error (OSError) leaves an adapter operation as an
\* exception; it is returned as a status code.
C5_HostErrorIsReturned ==
    last.raised # "OSError"

(***************************************************************************)
(* Claims about the server lifecycle                                       *)
(***************************************************************************)
\* C6: while the server runs, the root the adapter resolves against is the
\* root_path the server was constructed with, whatever other SFTPServer
\* objects are constructed meanwhile.
C6_RootIsTheServersRoot ==
    is_running => ROOT = root_path

\* a caller's step that enters start() or start_sync() on a running server,
\* or stop() on a server that is not running
EntersNoOp(c) ==
    \/ (StartCall(c) \/ StartSyncCall(c)) /\ is_running
    \/ StopCall(c) /\ ~is_running

\* C7: stop() on a server that is not running, and start() or start_sync()
\* on a running one, go straight to their return and change neither
\* is_running, the thread reference, the listening socket nor any socket or
\* thread: nothing is spawned, created or closed.
C7_NoOpCallsChangeNothing ==
    [][\A c \in Callers :
          (EntersNoOp(c) \/ Return(c)) =>
              /\ UNCHANGED <<is_running, thread, server_socket, sockets, loops, conns>>
              /\ callers'[c].pc \in {"start_return", "sync_return", "stop_return", "idle"}
              /\ callers'[c].pc = "idle" <=> Return(c)]_vars

\* start() was called while the accept loop of an earlier start() is
\* blocked in accept(), and is at its early return
C7_Witness ==
    \E c \in Callers :
        /\ callers[c].pc = "start_return"
        /\ is_running
        /\ thread # 0 /\ loops[thread].pc = "blocked"

\* the server was only ever started in background mode
BackgroundOnly ==
    thread # 0 /\ \A l \in DOMAIN loops : loops[l].mode = "thread"

\* C8: at the moment stop() returns on a server started in background mode,
\* is_running is false, the accept-loop thread has terminated and the
\* listening socket is closed.
C8_StopLeavesTheServerIdle ==
    [][\A c \in Callers :
          (StopJoin(c) /\ BackgroundOnly) =>
              /\ ~is_running'
              /\ loops'[thread'].pc \in {"done", "crashed"}
              /\ \A s \in DOMAIN sockets' : ~sockets'[s].open]_vars

\* every run of _run_server has ended, no call is in progress and the server
\* is stopped
Quiescent ==
    /\ ~is_running
    /\ \A c \in Callers : callers[c].pc = "idle"
    /\ \A l \in DOMAIN loops : Finished(l)

\* C9: no listening socket is left open after the run that created it has
\* been stopped.  (Sockets are closed by stop() alone, and a second close()
\* of a socket object does nothing.)
C9_NoSocketLeftOpen ==
    Quiescent => \A s \in DOMAIN sockets : ~sockets[s].open

\* C10: the accept error that stop() provokes by closing the socket under a
\* blocked accept() is not logged as a failure.
C10_ShutdownIsNotLogged ==
    "shutdown" \notin errlog

\* a step of loop l in which the handling of its connection fails
HandlingFails(l) ==
    /\ LoopHandle(l) \/ LoopStartServer(l)
    /\ loops'[l].pc \notin {"start_server", "monitor"}

\* C11: a failure while a connection is handled is logged and does not end
\* the accept loop: the step leads back to the test of the loop condition
\* with the failure in the log, and from that test a loop of a running
\* server reaches accept() again.
C11_FailureReturnsToAccept ==
    /\ [][\A l \in LoopIds :
            HandlingFails(l) =>
                loops'[l].pc = "check" /\ "connection" \in errlog']_vars
    /\ \A l \in LoopIds :
            (LoopAt(l, "check") /\ "connection" \in errlog)
                ~> (LoopAt(l, "accept") \/ ~is_running)

\* a loop of a running server is at accept() again after the handling of
\* a connection it accepted has failed
C11_Witness ==
    \E l \in DOMAIN loops :
        /\ loops[l].pc = "accept"
        /\ loops[l].conn # 0
        /\ "connection" \in errlog
        /\ is_running

\* the connections whose transport session is active
ActiveSessions == {k \in DOMAIN conns : conns[k].active}

\* C12: connections are served one after the other: at most one accepted
\* connection has an active transport session at any time.
C12_OneActiveSession ==
    Cardinality(ActiveSessions) <= 1

\* the executions of _run_server that have not ended
RunningLoops == {l \in DOMAIN loops : ~Finished(l)}

\* C13: at most one accept loop is executing for the server at any time.
C13_OneAcceptLoop ==
    Cardinality(RunningLoops) <= 1

(***************************************************************************)
(* Claims about sequences of adapter operations.  The operations are       *)
(* functions of the root, the host tree and their arguments, so that a     *)
(* sequence of them is stated on every host tree a short session reaches   *)
(* before its last request.                                                *)
(***************************************************************************)
Midway == nops < MaxSeq

\* the part of a client path after its last separator
BaseName(p) == Slice(p, LastSep(p, Len(p)))

Succeeded(out) == out.raised = "none" /\ out.ret = Status("SFTP_OK")
Listed(out) == out.raised = "none" /\ out.ret.kind = "attrs"
NamesOf(out) == {a.filename : a \in out.ret.val}

MkdirThenRmdir(p, attr) ==
    LET before == list_folder(ROOT, fs, DirName(p))
        mk == mkdir(ROOT, fs, p, attr)
        during == list_folder(ROOT, mk.fs, DirName(p))
        rm == rmdir(ROOT, mk.fs, p)
        after == list_folder(ROOT, rm.fs, DirName(p))
    IN Succeeded(mk) =>
           /\ Listed(before) /\ BaseName(p) \notin NamesOf(before)
           /\ Listed(during)
           /\ NamesOf(during) = NamesOf(before) \cup {BaseName(p)}
           /\ Succeeded(rm)
           /\ Listed(after) /\ NamesOf(after) = NamesOf(before)

\* C14: after a successful mkdir(p) the listing of p's parent contains p's
\* bare name, and after the rmdir(p) that follows it the listing has
\* exactly the names it had before the mkdir.
C14_MkdirRmdirRestoresListing ==
    Midway => \A p \in EntryPaths, a \in {NoneAttr, AttrMode} : MkdirThenRmdir(p, a)

\* mkdir("f") and then rmdir("f") were served, both with success, and the
\* host tree is the one before them
C14_Witness ==
    /\ nops = 2
    /\ last.op = "rmdir" /\ last.path = NameF
    /\ last.raised = "none" /\ last.ret = Status("SFTP_OK")
    /\ fs = InitFs

\* the targets of SeqTargets that begin with the separator
AbsTargets == {t \in SeqTargets : IsAbs(t)}

SymlinkThenReadlink(t, p) ==
    LET sy == symlink(ROOT, fs, t, p)
        rl == readlink(ROOT, sy.fs, p)
    IN Succeeded(sy) =>
           /\ rl.raised = "none" /\ rl.ret.kind = "string"
           /\ IsAbs(rl.ret.val)
           /\ NormPath(t) = t => rl.ret.val = t

\* C15: symlink(t, link) with a target t that begins with "/", followed by
\* readlink(link), returns a string that begins with "/", and t itself
\* when t is normalised.
C15_SymlinkReadlinkRoundTrip ==
    \A t \in AbsTargets, p \in LinkPaths : SymlinkThenReadlink(t, p)

\* the raw target of the link that the last call named
RawTarget == SysReadlink(fs, Realpath(ROOT, last.path).path).val

\* C16: readlink of a link whose raw host target is an absolute path that
\* does not lie in the root directory returns the sentinel "<error>".
C16_ReadlinkHidesHostPaths ==
    (/\ last.op = "readlink" /\ last.raised = "none" /\ last.ret.kind = "string"
     /\ IsAbs(RawTarget) /\ ~Inside(Comps(NormPath(RawTarget)), ROOT))
        => last.ret.val = ErrorStr

\* where a link target leads from the link at the resolved path lp, with
\* its ".." components applied
TargetLoc(lp, raw) == Comps(NormPath(PathJoin(DirName(lp), raw)))

\* the link the last call wrote
WrittenLink == fs[Comps(Realpath(ROOT, last.path).path)]

\* C17: a link that symlink() writes has a target that resolves inside the
\* root, or the sentinel "<error>".
C17_SymlinkTargetsStayInside ==
    (last.op = "symlink" /\ Succeeded(last)) =>
        \/ WrittenLink.target = ErrorStr
        \/ Inside(TargetLoc(Realpath(ROOT, last.path).path, WrittenLink.target), ROOT)

\* the entries of a listing other than the one named name
Others(out, name) == {a \in out.ret.val : a.filename # name}

OpenWriteRemove(p, flags, attr, n) ==
    LET name == BaseName(p)
        before == list_folder(ROOT, fs, DirName(p))
        op == open(ROOT, fs, p, flags, attr)
        wr == SysWrite(op.fs, op.ret.val.filename, op.ret.val.fstr, n)
        during == list_folder(ROOT, wr.fs, DirName(p))
        rm == remove(ROOT, wr.fs, p)
        after == list_folder(ROOT, rm.fs, DirName(p))
    IN (/\ Listed(before) /\ name \notin NamesOf(before)
        /\ "O_CREAT" \in flags
        /\ op.raised = "none" /\ op.ret.kind = "handle"
        /\ wr.err = "OK")
       => /\ Listed(during)
          /\ \E a \in during.ret.val :
                 a.filename = name /\ a.kind = "file" /\ a.size = n
          /\ Others(during, name) = before.ret.val
          /\ Succeeded(rm)
          /\ Listed(after) /\ after.ret.val = before.ret.val

\* C18: after an open(p) that creates p and a write of n bytes, the listing
\* of p's parent has an entry with p's bare name and size n and its other
\* entries are unchanged; after the remove(p) that follows, the listing is
\* the one before the open.
C18_CreatedFileIsListedAndRemoved ==
    Midway =>
        \A p \in FilePaths, fl \in SeqFlags, a \in {NoneAttr, AttrMode},
           n \in WriteSizes : OpenWriteRemove(p, fl, a, n)

\* open("f") created the file in the root and 5 bytes were written to it
C18_Witness ==
    /\ last.op = "write" /\ last.path = NameF /\ "O_CREAT" \in last.flags
    /\ last.ret = Payload("written", <<5>>)
    /\ <<NameR, NameF>> \in DOMAIN fs /\ fs[<<NameR, NameF>>].size = 5
    /\ nops = 1

\* the entries of a listing whose names are not in names
Except(out, names) == {a \in out.ret.val : a.filename \notin names}

RenameMoves(p, q) ==
    LET np == BaseName(p)
        nq == BaseName(q)
        same == DirName(p) = DirName(q)
        bp == list_folder(ROOT, fs, DirName(p))
        bq == list_folder(ROOT, fs, DirName(q))
        rn == rename(ROOT, fs, p, q)
        ap == list_folder(ROOT, rn.fs, DirName(p))
        aq == list_folder(ROOT, rn.fs, DirName(q))
        old == CHOOSE a \in bp.ret.val : a.filename = np
    IN (/\ p # q
        /\ Listed(bp) /\ np \in NamesOf(bp)
        /\ Succeeded(rn))
       => /\ Listed(ap) /\ Listed(aq) /\ Listed(bq)
          /\ np \notin NamesOf(ap)
          /\ [old EXCEPT !.filename = nq] \in aq.ret.val
          /\ Except(ap, IF same THEN {np, nq} ELSE {np})
                = Except(bp, IF same THEN {np, nq} ELSE {np})
          /\ Except(aq, IF same THEN {np, nq} ELSE {nq})
                = Except(bq, IF same THEN {np, nq} ELSE {nq})

\* rename() made its host call although one of its endpoints lies outside
\* the root
RenameUnjailed ==
    /\ last.op = "rename"
    /\ ~LexInside(ROOT, last.path) \/ ~LexInside(ROOT, last.path2)
    /\ last.calls > 0

\* the effect of a successful rename on the listings
C19_RenameEffect ==
    Midway => \A p \in EntryPaths, q \in EntryPaths : RenameMoves(p, q)

\* C19: rename() makes its host call only with both endpoints inside the
\* root; after a successful rename of a listed entry the old name is absent
\* from its parent's listing, the new name is listed with the same type and
\* attributes, and no other entry changes.
C19_RenameJailedAndExact ==
    ~RenameUnjailed /\ C19_RenameEffect

(***************************************************************************)
(* Claims about construction                                               *)
(***************************************************************************)
\* C20: when __init__ returns, a key file exists at the key path; it is a
\* newly generated key when no file was there, and the file that was there,
\* unchanged, otherwise.
C20_KeyFileAfterConstruction ==
    ctor.pc = "built" =>
        /\ KeyExists(ctor.k)
        /\ ctor.before = Absent => key_file[ctor.k] = Generated(ctor.made)
        /\ ctor.before # Absent => key_file[ctor.k] = ctor.before

\* a second server was constructed on the key file that the first one
\* generated where none was
C20_Witness ==
    /\ ctor.pc = "built" /\ ctor.built = 2
    /\ ctor.before = Generated(1)
    /\ key_file[ctor.k] = Generated(1)

(***************************************************************************)
(* Claims about the handle that open() returns                             *)
(***************************************************************************)
\* the access mode and the append option that a set of open flags asks for
Access(flags) ==
    IF "O_WRONLY" \in flags THEN "write-only"
    ELSE IF "O_RDWR" \in flags THEN "read-write"
    ELSE "read-only"
Appending(flags) == "O_APPEND" \in flags

\* the stream access mode stated for each access mode and append option
StatedMode ==
    [acc \in {"read-only", "write-only", "read-write"}, app \in BOOLEAN |->
        CASE acc = "write-only" -> (IF app THEN "ab" ELSE "wb")
          [] acc = "read-write" -> (IF app THEN "a+b" ELSE "r+b")
          [] acc = "read-only"  -> "rb"]

OpenReturnedHandle ==
    last.op = "open" /\ last.raised = "none" /\ last.ret.kind = "handle"
\* the last call was an open() that created its file and was sent no mode
OpenCreatedWithoutMode ==
    /\ last.op = "open" /\ last.changed
    /\ last.attr.isnone \/ last.attr.st_mode = NoMode

\* C21: the handle that open() returns names the path that _realpath
\* resolved, and its stream mode is the one stated for the requested
\* flags: write-only gives "wb" ("ab" with append), read-write gives "r+b"
\* ("a+b" with append), read-only gives "rb"; a file that open() creates
\* when no permission mode was sent is created with mode 0666.
C21_OpenHandleMatchesFlags ==
    /\ OpenReturnedHandle =>
          /\ last.ret.val.filename = Realpath(ROOT, last.path).path
          /\ last.ret.val.fstr = StatedMode[Access(last.flags), Appending(last.flags)]
          /\ last.ret.val.flags = last.flags
    /\ OpenCreatedWithoutMode =>
          LET w == Lookup(fs, Realpath(ROOT, last.path).path, TRUE) IN
          w.exists /\ fs[w.loc].kind = "file" /\ fs[w.loc].mode = DefaultMode

\* an appending read-write open that created its file with no mode sent
\* and returned a handle
C21_Witness ==
    /\ OpenReturnedHandle /\ OpenCreatedWithoutMode
    /\ last.flags = {"O_CREAT", "O_RDWR", "O_APPEND"}
    /\ last.ret.val.fstr = "a+b"

(***************************************************************************)
(* Claims about stop() and the is_running flag                             *)
(***************************************************************************)
\* the caller is inside a stop() that found a background server running
StoppingBackground(c) ==
    callers[c].pc \in {"stop_set", "stop_close", "stop_join"} /\ thread # 0

\* C22: stop() on a running background server returns eventually, wherever
\* the thread of _run_server is when stop() runs (before the socket is
\* made, between listen and accept, blocked in accept, handling or
\* monitoring a connection): the thread ends and the join completes.
C22_StopReturns ==
    StoppingBackground("main") ~> At("main", "idle")

\* no caller is inside start(), start_sync() or stop()
Settled == \A c \in Callers : At(c, "idle")

\* C23: the is_running flag reflects the accept loop.  Between the calls of
\* the methods, is_running is true only if an execution of _run_server is
\* alive or still starting; and when the accept loop has ended on its own
\* (the bind of the listening socket failed), a later start() is not
\* skipped as "already running".
C23_RunningReflectsLoop ==
    /\ [](Settled /\ is_running => RunningLoops # {})
    /\ [][\A c \in Callers :
            StartCall(c) /\ RunningLoops = {} => callers'[c].pc = "start_set"]_vars
====
